---- MODULE Spec2Model ----
(***************************************************************************)
(* Model of github_issue_pr_label_verifier.py: main() parses the command   *)
(* line, loads the credentials and the project configuration, and          *)
(* run_verification() fetches every configured item's labels and compares  *)
(* them with the expected labels.                                          *)
(*                                                                         *)
(* Label names are modelled by integer codes ordered like the names        *)
(* (1 = "bug" < 2 = "enhancement"), so that sorted() is a real sort.       *)
(* A label object of a response is <<l>> when its "name" is l and <<>>     *)
(* when it has no "name" field.  None is the empty sequence where a value  *)
(* is optional.                                                            *)
(***************************************************************************)
EXTENDS Integers, Sequences, FiniteSets, TLC

VARIABLES
    pc,            \* position of main(): "args", "env", "cfg", "verify", "loop", "ret", "raised", "exited"
    exit_code,     \* <<>> while running, <<c>> once the process has exited with status c
    exit_cause,    \* which exit was taken: "", "help", "usage", "env", "config", "result", "exception"
    github_token,  \* value returned by load_environment
    github_org,    \* value returned by load_environment
    config,        \* the dict returned by load_project_config
    idx,           \* number of entries of expected_labels the for loop has consumed
    all_passed,    \* run_verification's local all_passed
    requests,      \* the GET requests issued so far, in order
    results,       \* the per-item outcome lines printed so far, in order
    exc,           \* the exception propagating out of run_verification ("" when none)
    run,           \* which call of run_verification is in progress (1 or 2)
    report1,       \* what the first call produced, when a second call is made
    remote,        \* the remote state a harness has observed: item number -> <<response>>
    cmp_expected,  \* comparator input
    cmp_actual,    \* comparator input
    cmp_result     \* <<>> before the comparison, <<b>> after

vars == <<pc, exit_code, exit_cause, github_token, github_org, config, idx,
          all_passed, requests, results, exc, run, report1, remote,
          cmp_expected, cmp_actual, cmp_result>>

----------------------------------------------------------------------------
(* Bounds *)

MaxItems == 2

MaxLabels == 2

MaxRerunItems == 1

MaxCmpLen == 3

\* label names the comparator is exercised on
Labels == {1, 2}

\* label names the configured items and the remote use
ItemLabels == {1}

ItemNumbers == {1, 2, 3}

RangeChars == {"1", "3", "-", "x"}

SeqsUpTo(S, n) == UNION {[1..k -> S] : k \in 0..n}

LabelSeqs == SeqsUpTo(ItemLabels, MaxLabels)

None == <<>>

----------------------------------------------------------------------------
(* CONFIG *)

success_status_code == 200

not_found_status_code == 404

sort_labels == TRUE

issue_keyword == "Issue"

pr_keyword == "PR"

----------------------------------------------------------------------------
(* sorted(), the comparison of run_verification, the classification *)

RECURSIVE Insert(_, _)
Insert(x, s) ==
    IF s = <<>> THEN <<x>>
    ELSE IF x <= Head(s) THEN <<x>> \o s
    ELSE <<Head(s)>> \o Insert(x, Tail(s))

RECURSIVE sorted(_)
sorted(s) == IF s = <<>> THEN <<>> ELSE Insert(Head(s), sorted(Tail(s)))

LabelsMatch_unsorted(actual, expected) == actual = expected

LabelsMatch(actual, expected) ==
    (IF sort_labels THEN sorted(actual) ELSE actual)
        = (IF sort_labels THEN sorted(expected) ELSE expected)

item_type_exclusive(cfg, item_number) ==
    IF cfg.issue_min < item_number /\ item_number < cfg.issue_max
    THEN issue_keyword ELSE pr_keyword

item_type(cfg, item_number) ==
    IF cfg.issue_min <= item_number /\ item_number <= cfg.issue_max
    THEN issue_keyword ELSE pr_keyword

----------------------------------------------------------------------------
(* Responses of the remote API *)

LabelObjs == {<<>>} \cup {<<l>> : l \in ItemLabels}

Bodies ==
    [kind : {"badjson", "null"}, nonempty : {FALSE}, has_labels : {FALSE}, labels : {<<>>}]
    \cup [kind : {"array"}, nonempty : BOOLEAN, has_labels : {FALSE}, labels : {<<>>}]
    \cup [kind : {"object"}, nonempty : BOOLEAN, has_labels : {FALSE}, labels : {<<>>}]
    \cup [kind : {"object"}, nonempty : {TRUE}, has_labels : {TRUE},
          labels : SeqsUpTo(LabelObjs, MaxLabels)]

NoBody == [kind |-> "null", nonempty |-> FALSE, has_labels |-> FALSE, labels |-> <<>>]

Responses ==
    [transport_error : {FALSE}, status : {success_status_code}, body : Bodies]
    \cup [transport_error : {FALSE}, status : {not_found_status_code, 500}, body : {NoBody}]
    \cup [transport_error : {TRUE}, status : {0}, body : {NoBody}]

\* bool(result) of a decoded JSON value
Truthy(body) ==
    CASE body.kind = "null" -> FALSE
      [] body.kind = "array" -> body.nonempty
      [] body.kind = "object" -> body.nonempty
      [] OTHER -> FALSE

_get_github_api(resp) ==
    IF resp.transport_error
    THEN [success |-> FALSE, result |-> None]
    ELSE IF resp.status = success_status_code
         THEN IF resp.body.kind = "badjson"
              THEN [success |-> FALSE, result |-> None]
              ELSE [success |-> TRUE, result |-> <<resp.body>>]
         ELSE [success |-> FALSE, result |-> None]

Returned(v) == [kind |-> "list", labels |-> v, exc |-> ""]

ReturnedNone == [kind |-> "none", labels |-> <<>>, exc |-> ""]

Raised(e) == [kind |-> "raise", labels |-> <<>>, exc |-> e]

_get_item_labels(resp) ==
    LET r == _get_github_api(resp) IN
    IF ~r.success \/ r.result = None \/ ~Truthy(r.result[1])
    THEN ReturnedNone
    ELSE LET body == r.result[1] IN
         IF body.kind # "object"
         THEN Raised("AttributeError")
         ELSE LET labels == IF body.has_labels THEN body.labels ELSE <<>> IN
              IF \E i \in DOMAIN labels : labels[i] = <<>>
              THEN Raised("KeyError")
              ELSE Returned([i \in DOMAIN labels |-> labels[i][1]])

----------------------------------------------------------------------------
(* load_environment *)

EnvFiles == [exists : BOOLEAN, token : {"", "tok"}, org : {"", "org"}]

load_environment(env) ==
    IF ~env.exists THEN [ok |-> FALSE, token |-> "", org |-> ""]
    ELSE IF env.token = "" THEN [ok |-> FALSE, token |-> "", org |-> ""]
    ELSE IF env.org = "" THEN [ok |-> FALSE, token |-> "", org |-> ""]
    ELSE [ok |-> TRUE, token |-> env.token, org |-> env.org]

----------------------------------------------------------------------------
(* load_project_config: str.split("-"), int(), the required fields *)

required_fields == {"target_repo", "expected_labels", "issue_range"}

RangeStrings == SeqsUpTo(RangeChars, 3)

IsDigit(c) == c \in {"1", "3"}

DigitValue(c) == IF c = "1" THEN 1 ELSE 3

RECURSIVE Split(_)
Split(s) ==
    IF \A i \in DOMAIN s : s[i] # "-"
    THEN <<s>>
    ELSE LET i == CHOOSE k \in DOMAIN s :
                      s[k] = "-" /\ \A j \in 1..(k - 1) : s[j] # "-"
         IN <<SubSeq(s, 1, i - 1)>> \o Split(SubSeq(s, i + 1, Len(s)))

IntParses(part) == part # <<>> /\ \A i \in DOMAIN part : IsDigit(part[i])

RECURSIVE IntValue(_)
IntValue(part) ==
    IF part = <<>> THEN 0
    ELSE 10 * IntValue(SubSeq(part, 1, Len(part) - 1)) + DigitValue(part[Len(part)])

ParseRange(s) ==
    LET parts == Split(s) IN
    IF Len(parts) = 2 /\ IntParses(parts[1]) /\ IntParses(parts[2])
    THEN [ok |-> TRUE, issue_min |-> IntValue(parts[1]), issue_max |-> IntValue(parts[2])]
    ELSE [ok |-> FALSE, issue_min |-> 0, issue_max |-> 0]

\* expected_labels: a dict in insertion order, as a sequence of entries with distinct keys
Mappings ==
    {m \in SeqsUpTo([key : ItemNumbers, value : LabelSeqs], MaxItems) :
        \A i, j \in DOMAIN m : i # j => m[i].key # m[j].key}

NoMapping == <<>>

NoConfig ==
    [target_repo |-> "", expected_labels |-> NoMapping, issue_range |-> <<>>,
     issue_min |-> 0, issue_max |-> 0]

DefaultFile ==
    [exists |-> TRUE, yaml_ok |-> TRUE, fields |-> required_fields,
     target_repo |-> "repo", expected_labels |-> NoMapping, issue_range |-> <<"1", "-", "3">>]

ConfigFiles ==
    {[DefaultFile EXCEPT !.exists = FALSE], [DefaultFile EXCEPT !.yaml_ok = FALSE]}
    \cup {[DefaultFile EXCEPT !.fields = f] : f \in SUBSET required_fields}
    \cup {[DefaultFile EXCEPT !.issue_range = s] : s \in RangeStrings}
    \cup {[DefaultFile EXCEPT !.issue_range = s, !.expected_labels = m] :
             s \in {t \in RangeStrings : ParseRange(t).ok}, m \in Mappings}

load_project_config(file) ==
    IF ~file.exists THEN [ok |-> FALSE, config |-> NoConfig]
    ELSE IF ~file.yaml_ok THEN [ok |-> FALSE, config |-> NoConfig]
    ELSE IF \E field \in required_fields : field \notin file.fields
         THEN [ok |-> FALSE, config |-> NoConfig]
    ELSE LET r == ParseRange(file.issue_range) IN
         IF ~r.ok THEN [ok |-> FALSE, config |-> NoConfig]
         ELSE [ok |-> TRUE,
               config |-> [target_repo |-> file.target_repo,
                           expected_labels |-> file.expected_labels,
                           issue_range |-> file.issue_range,
                           issue_min |-> r.issue_min,
                           issue_max |-> r.issue_max]]

----------------------------------------------------------------------------
(* The process: main() *)

Exit(code, cause) ==
    /\ pc' = "exited"
    /\ exit_code' = <<code>>
    /\ exit_cause' = cause

ExitStatus_swapped(verification_result) == IF verification_result THEN 1 ELSE 0

ExitStatus(verification_result) == IF verification_result THEN 0 ELSE 1

Endpoint(org, repo, item_number) ==
    [org |-> org, repo |-> repo, path |-> "issues", number |-> item_number]

Init ==
    /\ pc = "args"
    /\ exit_code = <<>>
    /\ exit_cause = ""
    /\ github_token = ""
    /\ github_org = ""
    /\ config = NoConfig
    /\ idx = 0
    /\ all_passed = TRUE
    /\ requests = <<>>
    /\ results = <<>>
    /\ exc = ""
    /\ run = 1
    /\ report1 = <<>>
    /\ remote = [n \in ItemNumbers |-> <<>>]
    /\ cmp_expected = <<>>
    /\ cmp_actual = <<>>
    /\ cmp_result = <<>>

\* parser.parse_args(): argparse prints the help and exits 0 on -h/--help, and
\* exits 2 on a command line it cannot parse
ParseArgs ==
    /\ pc = "args"
    /\ \E outcome \in {"ok", "help", "usage"} :
          CASE outcome = "ok" -> pc' = "env" /\ UNCHANGED <<exit_code, exit_cause>>
            [] outcome = "help" -> Exit(0, "help")
            [] outcome = "usage" -> Exit(2, "usage")
    /\ UNCHANGED <<github_token, github_org, config, idx, all_passed, requests,
                   results, exc, run, report1, remote,
                   cmp_expected, cmp_actual, cmp_result>>

MainLoadEnvironment ==
    /\ pc = "env"
    /\ \E env \in EnvFiles :
          LET r == load_environment(env) IN
          IF r.ok
          THEN /\ pc' = "cfg"
               /\ github_token' = r.token
               /\ github_org' = r.org
               /\ UNCHANGED <<exit_code, exit_cause>>
          ELSE /\ Exit(1, "env")
               /\ UNCHANGED <<github_token, github_org>>
    /\ UNCHANGED <<config, idx, all_passed, requests, results, exc, run,
                   report1, remote, cmp_expected, cmp_actual, cmp_result>>

MainLoadProjectConfig ==
    /\ pc = "cfg"
    /\ \E file \in ConfigFiles :
          LET r == load_project_config(file) IN
          IF r.ok
          THEN /\ pc' = "verify"
               /\ config' = r.config
               /\ UNCHANGED <<exit_code, exit_cause>>
          ELSE /\ Exit(1, "config")
               /\ UNCHANGED config
    /\ UNCHANGED <<github_token, github_org, idx, all_passed, requests, results,
                   exc, run, report1, remote,
                   cmp_expected, cmp_actual, cmp_result>>

----------------------------------------------------------------------------
(* run_verification *)

RECURSIVE RemoveOne(_, _)
RemoveOne(s, x) ==
    IF s = <<>> THEN <<>>
    ELSE IF Head(s) = x THEN Tail(s)
    ELSE <<Head(s)>> \o RemoveOne(Tail(s), x)

RECURSIVE RemoveAll(_, _)
RemoveAll(s, xs) == IF xs = <<>> THEN s ELSE RemoveAll(RemoveOne(s, Head(xs)), Tail(xs))

\* a comparison that strikes the matched labels off the configuration's own list
ConfigAfterCompare_destructive(cfg, i, actual) ==
    [cfg EXCEPT !.expected_labels[i].value = RemoveAll(@, actual)]

\* sorted(expected) builds a new list: the configuration's list is left as it was
ConfigAfterCompare(cfg, i, actual) == cfg

\* a fetch that asks again
RequestsAfterFetch_retry(reqs, endpoint) == Append(Append(reqs, endpoint), endpoint)

\* _get_github_api issues one requests.get
RequestsAfterFetch(reqs, endpoint) == Append(reqs, endpoint)

\* the latest item decides
AllPassedAfter_latest(prev, item_ok) == item_ok

\* all_passed = False on a failed item, untouched on a matching one
AllPassedAfter(prev, item_ok) == IF item_ok THEN prev ELSE FALSE

RunStart ==
    /\ pc = "verify"
    /\ pc' = "loop"
    /\ all_passed' = TRUE
    /\ idx' = 0
    /\ requests' = <<>>
    /\ results' = <<>>
    /\ UNCHANGED <<exit_code, exit_cause, github_token, github_org, config, exc,
                   run, report1, remote, cmp_expected, cmp_actual, cmp_result>>

\* one pass through the body of the for loop, the remote answering resp
Iteration(resp) ==
    /\ pc = "loop"
    /\ idx < Len(config.expected_labels)
    /\ LET entry == config.expected_labels[idx + 1]
           item_number == entry.key
           expected == entry.value
           type == item_type(config, item_number)
           got == _get_item_labels(resp)
       IN /\ requests' = RequestsAfterFetch(requests,
                                Endpoint(github_org, config.target_repo, item_number))
          /\ CASE got.kind = "raise" ->
                    /\ pc' = "raised"
                    /\ exc' = got.exc
                    /\ UNCHANGED <<idx, all_passed, results, config>>
               [] got.kind = "none" ->
                    /\ results' = Append(results,
                           [item_number |-> item_number, kind |-> type,
                            outcome |-> "fetch_failed"])
                    /\ all_passed' = AllPassedAfter(all_passed, FALSE)
                    /\ idx' = idx + 1
                    /\ UNCHANGED <<pc, exc, config>>
               [] got.kind = "list" ->
                    /\ config' = ConfigAfterCompare(config, idx + 1, got.labels)
                    /\ idx' = idx + 1
                    /\ IF LabelsMatch(got.labels, expected)
                       THEN /\ results' = Append(results,
                                   [item_number |-> item_number, kind |-> type,
                                    outcome |-> "match"])
                            /\ all_passed' = AllPassedAfter(all_passed, TRUE)
                       ELSE /\ results' = Append(results,
                                   [item_number |-> item_number, kind |-> type,
                                    outcome |-> "mismatch"])
                            /\ all_passed' = AllPassedAfter(all_passed, FALSE)
                    /\ UNCHANGED <<pc, exc>>
    /\ UNCHANGED <<exit_code, exit_cause, github_token, github_org, run, report1,
                   cmp_expected, cmp_actual, cmp_result>>

RunIteration ==
    /\ \E resp \in Responses : Iteration(resp)
    /\ UNCHANGED remote

\* the same pass against a remote whose state does not change between calls:
\* an item answers as it answered before
RunIterationRemote ==
    /\ pc = "loop"
    /\ idx < Len(config.expected_labels)
    /\ LET n == config.expected_labels[idx + 1].key IN
       \E resp \in (IF remote[n] = <<>> THEN Responses ELSE {remote[n][1]}) :
          /\ Iteration(resp)
          /\ remote' = [remote EXCEPT ![n] = <<resp>>]

RunReturn ==
    /\ pc = "loop"
    /\ idx = Len(config.expected_labels)
    /\ pc' = "ret"
    /\ UNCHANGED <<exit_code, exit_cause, github_token, github_org, config, idx,
                   all_passed, requests, results, exc, run, report1, remote,
                   cmp_expected, cmp_actual, cmp_result>>

\* sys.exit(0 if verification_result else 1)
MainExit ==
    /\ pc = "ret"
    /\ Exit(ExitStatus(all_passed), "result")
    /\ UNCHANGED <<github_token, github_org, config, idx, all_passed, requests,
                   results, exc, run, report1, remote,
                   cmp_expected, cmp_actual, cmp_result>>

\* an exception nothing catches ends the interpreter with status 1
UnhandledException ==
    /\ pc = "raised"
    /\ Exit(1, "exception")
    /\ UNCHANGED <<github_token, github_org, config, idx, all_passed, requests,
                   results, exc, run, report1, remote,
                   cmp_expected, cmp_actual, cmp_result>>

Next ==
    \/ ParseArgs
    \/ MainLoadEnvironment
    \/ MainLoadProjectConfig
    \/ RunStart
    \/ RunIteration
    \/ RunReturn
    \/ MainExit
    \/ UnhandledException

Spec == Init /\ [][Next]_vars

----------------------------------------------------------------------------
(* run_verification called twice by a harness, on a loaded configuration and *)
(* against an unchanged remote state                                        *)

HarnessConfigs ==
    {load_project_config(f).config :
        f \in {g \in ConfigFiles : /\ load_project_config(g).ok
                                   /\ Len(g.expected_labels) <= MaxRerunItems}}

InitHarness ==
    /\ pc = "verify"
    /\ exit_code = <<>>
    /\ exit_cause = ""
    /\ github_token = "tok"
    /\ github_org = "org"
    /\ config \in HarnessConfigs
    /\ idx = 0
    /\ all_passed = TRUE
    /\ requests = <<>>
    /\ results = <<>>
    /\ exc = ""
    /\ run = 1
    /\ report1 = <<>>
    /\ remote = [n \in ItemNumbers |-> <<>>]
    /\ cmp_expected = <<>>
    /\ cmp_actual = <<>>
    /\ cmp_result = <<>>

Report ==
    [returned |-> pc = "ret", all_passed |-> all_passed, results |-> results,
     requests |-> requests, exc |-> exc]

Rerun ==
    /\ pc \in {"ret", "raised"}
    /\ run = 1
    /\ report1' = <<Report>>
    /\ run' = 2
    /\ pc' = "verify"
    /\ exc' = ""
    /\ UNCHANGED <<exit_code, exit_cause, github_token, github_org, config, idx,
                   all_passed, requests, results, remote,
                   cmp_expected, cmp_actual, cmp_result>>

NextHarness ==
    \/ RunStart
    \/ RunIterationRemote
    \/ RunReturn
    \/ Rerun

SpecHarness == InitHarness /\ [][NextHarness]_vars

----------------------------------------------------------------------------
(* The comparison of run_verification on its own *)

InitCompare ==
    /\ pc = "loop"
    /\ exit_code = <<>>
    /\ exit_cause = ""
    /\ github_token = "tok"
    /\ github_org = "org"
    /\ config = NoConfig
    /\ idx = 0
    /\ all_passed = TRUE
    /\ requests = <<>>
    /\ results = <<>>
    /\ exc = ""
    /\ run = 1
    /\ report1 = <<>>
    /\ remote = [n \in ItemNumbers |-> <<>>]
    /\ cmp_expected \in SeqsUpTo(Labels, MaxCmpLen)
    /\ cmp_actual \in SeqsUpTo(Labels, MaxCmpLen)
    /\ cmp_result = <<>>

Compare ==
    /\ cmp_result = <<>>
    /\ cmp_result' = <<LabelsMatch(cmp_actual, cmp_expected)>>
    /\ UNCHANGED <<pc, exit_code, exit_cause, github_token, github_org, config,
                   idx, all_passed, requests, results, exc, run, report1, remote,
                   cmp_expected, cmp_actual>>

NextCompare == Compare

SpecCompare == InitCompare /\ [][NextCompare]_vars

----------------------------------------------------------------------------
(* Properties *)

Keys == [i \in DOMAIN config.expected_labels |-> config.expected_labels[i].key]

Expected(i) == config.expected_labels[i].value

Count(s, l) == Cardinality({i \in DOMAIN s : s[i] = l})

MultisetEq(a, b) == \A l \in Labels : Count(a, l) = Count(b, l)

Failed(i) == results[i].outcome \in {"fetch_failed", "mismatch"}

\* C1: a run of run_verification whose fetches each return (a label list or
\* None) issues one request per key of expected_labels, in the mapping's
\* order, and prints one outcome per item in that order: the requests are at
\* every moment the first keys in order, none twice and none foreign, every
\* request that returned has its one outcome, and when the run returns every
\* key has been requested.
C1_OneFetchPerItemInOrder ==
    /\ Len(requests) <= Len(Keys)
    /\ \A i \in DOMAIN requests : requests[i].number = Keys[i]
    /\ Len(results) <= Len(requests)
    /\ \A i \in DOMAIN results : results[i].item_number = Keys[i]
    /\ (pc \in {"loop", "ret"} /\ exc = "")
          => (Len(results) = Len(requests) /\ Len(requests) = idx)
    /\ (pc = "ret" \/ exit_cause = "result")
          => (Len(requests) = Len(Keys) /\ Len(results) = Len(Keys))

C1_Witness ==
    /\ pc = "ret"
    /\ Len(results) = 2
    /\ Keys[1] > Keys[2]
    /\ results[1].outcome = "fetch_failed"
    /\ results[2].outcome = "match"

\* C2: when run_verification returns, all_passed is true exactly when every
\* configured item was fetched and matched its expected labels; with no
\* configured item it is true and no request was made.
C2_AllPassedIffEveryItemMatched ==
    pc = "ret" =>
        /\ all_passed <=> (/\ Len(results) = Len(Keys)
                           /\ \A i \in DOMAIN results : results[i].outcome = "match")
        /\ Keys = <<>> => (all_passed /\ requests = <<>>)

C2_Witness ==
    /\ pc = "ret"
    /\ Len(results) = 2
    /\ results[1].outcome = "mismatch"
    /\ results[2].outcome = "match"
    /\ ~all_passed

\* C3: a failed item (fetch failure or mismatch) never cuts the run short:
\* once the process has ended after an item failed, every configured item has
\* been fetched and evaluated.
C3_FailedItemNeverEndsTheRun ==
    (pc = "exited" /\ \E i \in DOMAIN results : Failed(i))
        => (Len(requests) = Len(Keys) /\ Len(results) = Len(Keys))

\* C4: the fetch of an item's labels never raises into run_verification,
\* whatever the remote answers.
C4_FetchNeverRaises == pc # "raised" /\ exc = ""

WellFormed(resp) ==
    /\ ~resp.transport_error
    /\ resp.status = 200
    /\ resp.body.kind = "object"
    /\ \A i \in DOMAIN resp.body.labels : resp.body.labels[i] # <<>>

Names(resp) == [i \in DOMAIN resp.body.labels |-> resp.body.labels[i][1]]

\* C5: a 200 response whose body is a JSON object (its labels, if any, all
\* named) is never a fetch failure, and its item passes exactly when the names
\* of its labels equal the expected labels as multisets.
C5_SuccessIsFound ==
    \A i \in DOMAIN results :
        LET r == remote[results[i].item_number] IN
        (r # <<>> /\ WellFormed(r[1])) =>
            /\ results[i].outcome # "fetch_failed"
            /\ results[i].outcome = "match" <=> MultisetEq(Names(r[1]), Expected(i))

ExitContract ==
    /\ exit_code \in {<<0>>, <<1>>}
    /\ exit_code = <<0>> <=> (exit_cause = "result" /\ all_passed)

\* C6 as stated: every execution ends with status 0 or 1, and with 0 exactly
\* when verification ran and all_passed is true.
C6_ExitZeroIffAllPassed == pc = "exited" => ExitContract

\* C6 amended: every execution whose command line parse_args accepts ends with
\* status 0 or 1, with 0 exactly when verification ran and all_passed is true
\* (an exception out of run_verification ends it with 1), and no execution
\* stops before it has exited.
C6_ExitContractOnceArgsParsed ==
    /\ (pc = "exited" /\ exit_cause \notin {"help", "usage"}) => ExitContract
    /\ pc # "exited" => (exit_code = <<>> /\ ENABLED Next)

C6_Witness ==
    /\ pc = "exited"
    /\ exit_code = <<0>>
    /\ Len(results) = 2
    /\ \A i \in DOMAIN results : results[i].outcome = "match"

\* C7: a missing credential and a missing or malformed configuration end the
\* process with status 1 before any request, and nothing else ends a run
\* before run_verification has returned.
C7_OnlyLoadErrorsStopTheRun ==
    (pc = "exited" /\ exit_cause \notin {"help", "usage", "result"})
        => (/\ exit_cause \in {"env", "config"}
            /\ exit_code = <<1>>
            /\ requests = <<>>)

\* C8: the comparison judges two label sequences matching exactly when they
\* are equal as multisets.
C8_MatchIffMultisetEqual ==
    cmp_result # <<>> => (cmp_result[1] <=> MultisetEq(cmp_actual, cmp_expected))

C8_Witness ==
    /\ cmp_result = <<TRUE>>
    /\ cmp_actual # cmp_expected
    /\ Len(cmp_actual) = 3

OutcomeOf(resp, expected) ==
    LET got == _get_item_labels(resp) IN
    IF got.kind = "none" THEN "fetch_failed"
    ELSE IF MultisetEq(got.labels, expected) THEN "match" ELSE "mismatch"

\* C9: an item is reported as Issue exactly when issue_min <= number <=
\* issue_max, as PR otherwise (always PR when issue_min > issue_max); whatever
\* its kind, the request goes to issues/<number> and the outcome is the one
\* the response and the expected labels determine.
C9_Classification ==
    \A i \in DOMAIN results :
        LET n == results[i].item_number IN
        /\ results[i].kind = "Issue" <=> (config.issue_min <= n /\ n <= config.issue_max)
        /\ results[i].kind \in {"Issue", "PR"}
        /\ config.issue_min > config.issue_max => results[i].kind = "PR"
        /\ requests[i] = [org |-> github_org, repo |-> config.target_repo,
                          path |-> "issues", number |-> n]
        /\ results[i].outcome = OutcomeOf(remote[n][1], Expected(i))

C9_Witness ==
    /\ pc = "ret"
    /\ Len(results) = 1
    /\ config.issue_min < config.issue_max
    /\ results[1].item_number = config.issue_max
    /\ results[1].kind = "Issue"
    /\ results[1].outcome = "match"

IsPrefix(s, t) == Len(s) <= Len(t) /\ \A i \in DOMAIN s : s[i] = t[i]

====
